---- MODULE Spec2Model ----
(***************************************************************************)
(* Model of the interpretation engine of screenshot_processor.py: the      *)
(* company matcher, the strike/option extractor and the time candidate     *)
(* generator of find_all_details / extract_time_advanced, the text         *)
(* normalizer fix_common_digit_errors applied pass after pass, and the     *)
(* file moving of one batch of main (move_file_threaded in a thread pool). *)
(*                                                                         *)
(* A text is a sequence of one-character strings.  A regular expression of *)
(* the source is a tree (Cls, NCls, WordB, Cat, Alt, Grp, Rep) matched by  *)
(* a backtracking matcher that lists the ways to match in the priority     *)
(* order of Python's re module, so that the first one is the match re      *)
(* reports.  A confidence is an integer number of hundredths.              *)
(***************************************************************************)
EXTENDS Integers, Sequences, FiniteSets, TLC

VARIABLES ocr_results, known_companies, pc,
          found_company, found_strike_num, found_option_type, found_time,
          strike_raw, found_times,
          normalized,
          batch_results, main_pc, main_index, task_pc, task_outcome,
          location, folders, dest_files, created

\* the arguments, locals and results of one call of the engine
engineVars == <<ocr_results, known_companies, pc,
                found_company, found_strike_num, found_option_type, found_time,
                strike_raw, found_times>>
\* a text and the results of the normalizer passes run on it so far
normVars == <<normalized>>

\* one batch of main: the results of process_batch_parallel, where main is,
\* where each move task is and how it ended, where each screenshot is, and
\* the folders and files of the destination
batchVars == <<batch_results, main_pc, main_index, task_pc, task_outcome,
               location, folders, dest_files, created>>

vars == <<engineVars, normVars, batchVars>>

\* Python's None: a value that is no text (every element of a text is one character)
None == <<"None">>

-----------------------------------------------------------------------------
(* Characters *)

DigitSeq == <<"0", "1", "2", "3", "4", "5", "6", "7", "8", "9">>
LowerSeq == <<"a", "b", "c", "d", "e", "f", "g", "h", "i", "j", "k", "l", "m",
              "n", "o", "p", "q", "r", "s", "t", "u", "v", "w", "x", "y", "z">>
UpperSeq == <<"A", "B", "C", "D", "E", "F", "G", "H", "I", "J", "K", "L", "M",
              "N", "O", "P", "Q", "R", "S", "T", "U", "V", "W", "X", "Y", "Z">>

Range(f) == {f[i] : i \in DOMAIN f}

\* [a-b] over the digits: the characters of DigitSeq from value a to value b
DigitRange(a, b) == {DigitSeq[i + 1] : i \in a..b}
Digits == DigitRange(0, 9)
UpperLetters == Range(UpperSeq)
LowerLetters == Range(LowerSeq)
\* \w of re (ASCII part): letters, digits and the underscore
WordChars == UpperLetters \cup LowerLetters \cup Digits \cup {"_"}
\* \s of re, as far as the texts of the model go
SpaceChars == {" "}

\* str.upper(), one character
UpperChar(ch) ==
    IF ch \in LowerLetters
    THEN UpperSeq[CHOOSE i \in 1..Len(LowerSeq) : LowerSeq[i] = ch]
    ELSE ch

\* str.upper()
StrUpper(s) == [i \in 1..Len(s) |-> UpperChar(s[i])]

\* str.replace(old, new) for one-character old and new
StrReplace(s, old, new) == [i \in 1..Len(s) |-> IF s[i] = old THEN new ELSE s[i]]

\* str.strip()
RECURSIVE LStrip(_)
LStrip(s) == IF Len(s) > 0 /\ s[1] \in SpaceChars THEN LStrip(Tail(s)) ELSE s
RECURSIVE RStrip(_)
RStrip(s) ==
    IF Len(s) > 0 /\ s[Len(s)] \in SpaceChars
    THEN RStrip(SubSeq(s, 1, Len(s) - 1))
    ELSE s
StrStrip(s) == RStrip(LStrip(s))

\* str.endswith(suffix)
EndsWith(s, suffix) ==
    /\ Len(s) >= Len(suffix)
    /\ SubSeq(s, Len(s) - Len(suffix) + 1, Len(s)) = suffix

\* " ".join(parts)
RECURSIVE JoinSpace(_)
JoinSpace(parts) ==
    IF Len(parts) = 0 THEN << >>
    ELSE IF Len(parts) = 1 THEN parts[1]
    ELSE parts[1] \o <<" ">> \o JoinSpace(Tail(parts))

\* int(s) of a string of decimal digits (leading zeros allowed)
DigitVal(ch) == (CHOOSE i \in 1..10 : DigitSeq[i] = ch) - 1
RECURSIVE IntOf(_)
IntOf(s) ==
    IF Len(s) = 0 THEN 0
    ELSE 10 * IntOf(SubSeq(s, 1, Len(s) - 1)) + DigitVal(s[Len(s)])

\* str(n) of a natural number
RECURSIVE StrOf(_)
StrOf(n) ==
    IF n < 10 THEN <<DigitSeq[n + 1]>>
    ELSE StrOf(n \div 10) \o <<DigitSeq[(n % 10) + 1]>>

\* f"{m:02d}" of a natural number
Fmt02d(m) == IF m < 10 THEN <<"0">> \o StrOf(m) ELSE StrOf(m)

-----------------------------------------------------------------------------
(* Regular expressions of the re module *)

Cls(S) == [t |-> "cls", s |-> S]                     \* [...]
NCls(S) == [t |-> "ncls", s |-> S]                   \* [^...]
WordB == [t |-> "b"]                                 \* \b
Cat(xs) == [t |-> "cat", xs |-> xs]                  \* xs[1] xs[2] ...
Alt(xs) == [t |-> "alt", xs |-> xs]                  \* xs[1] | xs[2] | ...
Grp(n, x) == [t |-> "grp", n |-> n, x |-> x]         \* ( x ), the n-th group
Rep(x, lo, hi) == [t |-> "rep", x |-> x, lo |-> lo, hi |-> hi]  \* x{lo,hi}, greedy
Star(x) == Rep(x, 0, -1)                             \* x*, greedy (no upper limit)
Plus(x) == Rep(x, 1, -1)                             \* x+, greedy (no upper limit)
\* a literal string, as re.escape gives it
Lit(str) == Cat([i \in 1..Len(str) |-> Cls({str[i]})])

\* the groups of a pattern before it matched
NoGroups == <<<< >>, << >>, << >>>>

\* \b at position p (before s[p]): exactly one side is a word character
AtWordBoundary(s, p) ==
    LET before == p > 1 /\ s[p - 1] \in WordChars
        after == p <= Len(s) /\ s[p] \in WordChars
    IN  before # after

\* The ways x matches s from position p on, in the order re tries them:
\* each is the position after the match and the groups captured.
RECURSIVE Match(_, _, _, _)
RECURSIVE MatchCat(_, _, _, _)
RECURSIVE MatchCatEach(_, _, _, _)
RECURSIVE MatchAlt(_, _, _, _)
RECURSIVE MatchRep(_, _, _, _, _)
RECURSIVE MatchRepEach(_, _, _, _, _)

Match(x, s, p, c) ==
    CASE x.t = "cls" ->
           IF p <= Len(s) /\ s[p] \in x.s THEN <<[e |-> p + 1, c |-> c]>> ELSE << >>
      [] x.t = "ncls" ->
           IF p <= Len(s) /\ s[p] \notin x.s THEN <<[e |-> p + 1, c |-> c]>> ELSE << >>
      [] x.t = "b" ->
           IF AtWordBoundary(s, p) THEN <<[e |-> p, c |-> c]>> ELSE << >>
      [] x.t = "cat" -> MatchCat(x.xs, s, p, c)
      [] x.t = "alt" -> MatchAlt(x.xs, s, p, c)
      [] x.t = "grp" ->
           LET rs == Match(x.x, s, p, c)
           IN  [i \in 1..Len(rs) |->
                  [e |-> rs[i].e,
                   c |-> [rs[i].c EXCEPT ![x.n] = SubSeq(s, p, rs[i].e - 1)]]]
      [] x.t = "rep" -> MatchRep(x, 0, s, p, c)

MatchCat(xs, s, p, c) ==
    IF Len(xs) = 0 THEN <<[e |-> p, c |-> c]>>
    ELSE MatchCatEach(Match(xs[1], s, p, c), 1, Tail(xs), s)

MatchCatEach(rs, i, rest, s) ==
    IF i > Len(rs) THEN << >>
    ELSE MatchCat(rest, s, rs[i].e, rs[i].c) \o MatchCatEach(rs, i + 1, rest, s)

MatchAlt(xs, s, p, c) ==
    IF Len(xs) = 0 THEN << >>
    ELSE Match(xs[1], s, p, c) \o MatchAlt(Tail(xs), s, p, c)

\* greedy: one more repetition is tried before stopping at n repetitions
MatchRep(x, n, s, p, c) ==
    (IF x.hi < 0 \/ n < x.hi THEN MatchRepEach(Match(x.x, s, p, c), 1, x, n, s) ELSE << >>)
    \o (IF n >= x.lo THEN <<[e |-> p, c |-> c]>> ELSE << >>)

MatchRepEach(rs, i, x, n, s) ==
    IF i > Len(rs) THEN << >>
    ELSE MatchRep(x, n + 1, s, rs[i].e, rs[i].c) \o MatchRepEach(rs, i + 1, x, n, s)

\* re.search from position p on: the leftmost match (ok), or no match
NoMatch == [ok |-> FALSE]
RECURSIVE SearchFrom(_, _, _)
SearchFrom(x, s, p) ==
    IF p > Len(s) + 1 THEN NoMatch
    ELSE LET rs == Match(x, s, p, NoGroups)
         IN  IF Len(rs) > 0 THEN [ok |-> TRUE, b |-> p, e |-> rs[1].e, c |-> rs[1].c]
             ELSE SearchFrom(x, s, p + 1)

ReSearch(x, s) == SearchFrom(x, s, 1)

\* re.findall: the groups of the non-overlapping matches, left to right
RECURSIVE FindAllFrom(_, _, _)
FindAllFrom(x, s, p) ==
    LET m == SearchFrom(x, s, p)
    IN  IF ~m.ok THEN << >>
        ELSE <<m.c>> \o FindAllFrom(x, s, IF m.e > m.b THEN m.e ELSE m.e + 1)

ReFindAll(x, s) == FindAllFrom(x, s, 1)

\* A replacement template is a sequence of pieces, each a literal text
\* followed by a group reference (0: none): r'1\1;\2' is
\* <<[lit |-> <<"1">>, grp |-> 1], [lit |-> <<";">>, grp |-> 2]>>.
RECURSIVE Expand(_, _)
Expand(tmpl, c) ==
    IF Len(tmpl) = 0 THEN << >>
    ELSE tmpl[1].lit \o (IF tmpl[1].grp = 0 THEN << >> ELSE c[tmpl[1].grp])
         \o Expand(Tail(tmpl), c)

\* re.sub: every non-overlapping match replaced by the expanded template
RECURSIVE SubFrom(_, _, _, _)
SubFrom(x, tmpl, s, p) ==
    LET m == SearchFrom(x, s, p)
    IN  IF ~m.ok THEN SubSeq(s, p, Len(s))
        ELSE SubSeq(s, p, m.b - 1) \o Expand(tmpl, m.c)
             \o (IF m.e > m.b THEN SubFrom(x, tmpl, s, m.e)
                 ELSE SubSeq(s, m.e, m.e) \o SubFrom(x, tmpl, s, m.e + 1))

ReSub(x, tmpl, s) == SubFrom(x, tmpl, s, 1)

-----------------------------------------------------------------------------
(* fix_common_digit_errors *)

\* the corrections with the letter O typed for the zero of 'D'
correctionsWithLetterO ==
    << <<"O", "0">>, <<"o", "0">>, <<"Q", "0">>, <<"D", "O">>, <<"U", "0">>,
       <<"C", "0">>, <<"I", "1">>, <<"l", "1">>, <<"L", "1">>, <<"|", "1">>,
       <<"J", "1">>, <<"i", "1">>, <<"Z", "2">>, <<"z", "2">>, <<"R", "2">>,
       <<"E", "3">>, <<"e", "3">>, <<"A", "4">>, <<"a", "4">>, <<"S", "5">>,
       <<"s", "5">>, <<"G", "6">>, <<"g", "9">>, <<"b", "6">>, <<"T", "7">>,
       <<"t", "7">>, <<"?", "7">>, <<"B", "8">>, <<"8", "8">>, <<"q", "9">> >>

\* the corrections dictionary, in the order the loop visits it: a key written
\* twice in the literal ('G', 'g') keeps its first place and its last value
corrections ==
    << <<"O", "0">>, <<"o", "0">>, <<"Q", "0">>, <<"D", "0">>, <<"U", "0">>,
       <<"C", "0">>, <<"I", "1">>, <<"l", "1">>, <<"L", "1">>, <<"|", "1">>,
       <<"J", "1">>, <<"i", "1">>, <<"Z", "2">>, <<"z", "2">>, <<"R", "2">>,
       <<"E", "3">>, <<"e", "3">>, <<"A", "4">>, <<"a", "4">>, <<"S", "5">>,
       <<"s", "5">>, <<"G", "6">>, <<"g", "9">>, <<"b", "6">>, <<"T", "7">>,
       <<"t", "7">>, <<"?", "7">>, <<"B", "8">>, <<"8", "8">>, <<"q", "9">> >>

RECURSIVE ApplyCorrections(_, _)
ApplyCorrections(result, todo) ==
    IF Len(todo) = 0 THEN result
    ELSE ApplyCorrections(StrReplace(result, todo[1][1], todo[1][2]), Tail(todo))

fix_common_digit_errors(text) == ApplyCorrections(text, corrections)

-----------------------------------------------------------------------------
(* is_valid_time *)

\* str.split(sep) for a one-character sep
RECURSIVE SplitFrom(_, _, _)
SplitFrom(s, sep, part) ==
    IF Len(s) = 0 THEN <<part>>
    ELSE IF s[1] = sep THEN <<part>> \o SplitFrom(Tail(s), sep, << >>)
    ELSE SplitFrom(Tail(s), sep, Append(part, s[1]))

StrSplit(s, sep) == SplitFrom(s, sep, << >>)

\* int(s) does not raise ValueError: a non-empty string of digits
IsInt(s) == Len(s) > 0 /\ \A i \in 1..Len(s) : s[i] \in Digits

\* hour, minute = map(int, parts) raises nothing, and the pair is in the window
ValidParts(parts) ==
    /\ Len(parts) = 2
    /\ IsInt(parts[1])
    /\ IsInt(parts[2])
    /\ 9 <= IntOf(parts[1]) /\ IntOf(parts[1]) <= 15
    /\ 0 <= IntOf(parts[2]) /\ IntOf(parts[2]) <= 59

is_valid_time(time_str) ==
    IF ";" \in Range(time_str) THEN ValidParts(StrSplit(time_str, ";"))
    ELSE IF ":" \in Range(time_str) THEN ValidParts(StrSplit(time_str, ":"))
    ELSE IF "." \in Range(time_str) THEN ValidParts(StrSplit(time_str, "."))
    ELSE FALSE

-----------------------------------------------------------------------------
(* extract_time_advanced *)

\* the confidence of a detection that carries none (0.5), and the fixed
\* confidences of the strategies, in hundredths
DefaultConfidence == 50
CorrectionConfidence == 70
CorrectedTextConfidence == 90
SeparatedConfidence == 60
PatternFixConfidence == 80

\* the trading-hours window of the candidate guards
MinHour == 9
MaxHour == 15
MaxMinute == 59

\* the guard without its lower hour limit
InWindowNoLowerHour(h, m) == h <= MaxHour /\ 0 <= m /\ m <= MaxMinute

\* the guard with the lower hour limit excluded (9 < h)
InWindowAfterNine(h, m) == MinHour < h /\ h <= MaxHour /\ 0 <= m /\ m <= MaxMinute

\* if 9 <= h <= 15 and 0 <= m <= 59
InWindow(h, m) == MinHour <= h /\ h <= MaxHour /\ 0 <= m /\ m <= MaxMinute

\* f"{h};{m:02d}"
TimeStr(h, m) == StrOf(h) \o <<";">> \o Fmt02d(m)

\* pieces of the time patterns
Separator == Cls({":", ";", "."})                                  \* [:;.]
Hour0to15 == Alt(<<Cls(Digits), Cat(<<Cls({"1"}), Cls(DigitRange(0, 5))>>)>>)  \* [0-9]|1[0-5]
HourValid == Alt(<<Lit(<<"9">>), Lit(<<"1", "0">>), Lit(<<"1", "1">>), Lit(<<"1", "2">>),
                   Lit(<<"1", "3">>), Lit(<<"1", "4">>), Lit(<<"1", "5">>)>>)  \* 9|10|11|12|13|14|15
Minute0to59 == Cat(<<Cls(DigitRange(0, 5)), Cls(Digits)>>)         \* [0-5][0-9]
TwoDigits == Cat(<<Cls(Digits), Cls(Digits)>>)                     \* [0-9][0-9], [0-9]{2}

\* \b(hour)[:;.](minute)\b
TimePattern(hour, minute) == Cat(<<WordB, Grp(1, hour), Separator, Grp(2, minute), WordB>>)

\* the candidates of a list of (hour, minute) matches, each at confidence conf
RECURSIVE CandidatesOf(_, _)
CandidatesOf(matches, conf) ==
    IF Len(matches) = 0 THEN << >>
    ELSE LET h == IntOf(matches[1][1])
             m == IntOf(matches[1][2])
         IN  (IF InWindow(h, m) THEN << <<TimeStr(h, m), conf>> >> ELSE << >>)
             \o CandidatesOf(Tail(matches), conf)

\* for pattern in patterns: the candidates of re.findall(pattern, text)
RECURSIVE CandidatesOfPatterns(_, _, _)
CandidatesOfPatterns(patterns, text, conf) ==
    IF Len(patterns) = 0 THEN << >>
    ELSE CandidatesOf(ReFindAll(patterns[1], text), conf)
         \o CandidatesOfPatterns(Tail(patterns), text, conf)

\* Strategy 1: direct pattern matching in the individual text blocks
time_patterns_1 ==
    << TimePattern(Hour0to15, Minute0to59),
       TimePattern(Hour0to15, TwoDigits),
       TimePattern(HourValid, Minute0to59) >>

\* result[2] if len(result) > 2 else 0.5
ConfidenceOf(result) == IF Len(result) > 2 THEN result[3] ELSE DefaultConfidence

RECURSIVE Strategy1(_)
Strategy1(results) ==
    IF Len(results) = 0 THEN << >>
    ELSE LET text == StrStrip(StrUpper(results[1][2]))
             cleaned_text == fix_common_digit_errors(text)
         IN  CandidatesOfPatterns(time_patterns_1, cleaned_text, ConfidenceOf(results[1]))
             \o Strategy1(Tail(results))

\* " ".join([res[1] for res in ocr_results])
FullText(results) == JoinSpace([i \in 1..Len(results) |-> results[i][2]])

\* Strategy 2: problematic readings, repaired
problematic_patterns ==
    << Cat(<<WordB, Grp(1, Cls({"6", "7"})), Grp(2, Cls({"0", "1"})), Separator,
             Grp(3, Minute0to59), WordB>>),
       Cat(<<WordB, Grp(1, Cls({"7", "8", "9"})), Grp(2, Cls(Digits)), Separator,
             Grp(3, Minute0to59), WordB>>),
       Cat(<<WordB, Grp(1, Cls(Digits)), Grp(2, Cls(Digits)), Separator,
             Grp(3, Cat(<<Cls(DigitRange(6, 9)), Cls(Digits)>>)), WordB>>) >>

\* the repair that drops the misread digit instead of reading it as 1
CorrectedHourDropped(first_digit, second_digit) ==
    IF first_digit \in {<<"6">>, <<"7">>, <<"8">>, <<"9">>} THEN second_digit
    ELSE first_digit \o second_digit

CorrectedHour(first_digit, second_digit) ==
    IF first_digit \in {<<"6">>, <<"7">>} THEN <<"1">> \o second_digit
    ELSE IF first_digit \in {<<"8">>, <<"9">>} THEN <<"1">> \o second_digit
    ELSE first_digit \o second_digit

CorrectedMinute(minute_part) ==
    IF IntOf(minute_part) >= 60
    THEN IF minute_part[1] = "6" THEN <<"0", minute_part[2]>>
         ELSE IF minute_part[1] = "7" THEN <<"1", minute_part[2]>>
         ELSE IF minute_part[1] = "8" THEN <<"3", minute_part[2]>>
         ELSE IF minute_part[1] = "9" THEN <<"3", minute_part[2]>>
         ELSE minute_part
    ELSE minute_part

RECURSIVE RepairedCandidates(_)
RepairedCandidates(matches) ==
    IF Len(matches) = 0 THEN << >>
    ELSE LET h == IntOf(CorrectedHour(matches[1][1], matches[1][2]))
             m == IntOf(CorrectedMinute(matches[1][3]))
         IN  (IF InWindow(h, m) THEN << <<TimeStr(h, m), CorrectionConfidence>> >> ELSE << >>)
             \o RepairedCandidates(Tail(matches))

RECURSIVE Strategy2Patterns(_, _)
Strategy2Patterns(patterns, full_text) ==
    IF Len(patterns) = 0 THEN << >>
    ELSE RepairedCandidates(ReFindAll(patterns[1], full_text))
         \o Strategy2Patterns(Tail(patterns), full_text)

Strategy2(full_text) == Strategy2Patterns(problematic_patterns, full_text)

\* Strategy 3: the patterns on the corrected full text
time_patterns_3 ==
    << TimePattern(Hour0to15, Minute0to59),
       TimePattern(HourValid, TwoDigits) >>

Strategy3(corrected_full_text) ==
    CandidatesOfPatterns(time_patterns_3, corrected_full_text, CorrectedTextConfidence)

\* Strategy 4: separated numbers, \b([0-9]|1[0-5])\s+([0-5][0-9])\b
number_pattern ==
    Cat(<<WordB, Grp(1, Hour0to15), Plus(Cls(SpaceChars)), Grp(2, Minute0to59), WordB>>)

Strategy4(corrected_full_text) ==
    CandidatesOf(ReFindAll(number_pattern, corrected_full_text), SeparatedConfidence)

\* Strategy 5: known bad readings, substituted
bad_reading_fixes ==
    << [bad |-> Cat(<<WordB, Cls({"7"}), Grp(1, Cls(DigitRange(0, 5))), Separator,
                      Grp(2, Minute0to59), WordB>>),
        fix |-> <<[lit |-> <<"1">>, grp |-> 1], [lit |-> <<";">>, grp |-> 2]>>],
       [bad |-> Cat(<<WordB, Cls({"6"}), Grp(1, Cls(DigitRange(0, 5))), Separator,
                      Grp(2, Minute0to59), WordB>>),
        fix |-> <<[lit |-> <<"1">>, grp |-> 1], [lit |-> <<";">>, grp |-> 2]>>],
       [bad |-> Cat(<<WordB, Grp(1, Hour0to15), Separator, Cls({"7"}),
                      Grp(2, Cls(Digits)), WordB>>),
        fix |-> <<[lit |-> << >>, grp |-> 1], [lit |-> <<";", "1">>, grp |-> 2]>>],
       [bad |-> Cat(<<WordB, Grp(1, Hour0to15), Separator, Cls({"6"}),
                      Grp(2, Cls(Digits)), WordB>>),
        fix |-> <<[lit |-> << >>, grp |-> 1], [lit |-> <<";", "0">>, grp |-> 2]>>] >>

RECURSIVE Strategy5Fixes(_, _)
Strategy5Fixes(fixes, full_text) ==
    IF Len(fixes) = 0 THEN << >>
    ELSE LET fixed_text == ReSub(fixes[1].bad, fixes[1].fix, full_text)
         IN  (IF fixed_text # full_text
              THEN CandidatesOf(ReFindAll(TimePattern(Hour0to15, Minute0to59), fixed_text),
                                PatternFixConfidence)
              ELSE << >>)
             \o Strategy5Fixes(Tail(fixes), full_text)

Strategy5(full_text) == Strategy5Fixes(bad_reading_fixes, full_text)

\* found_times when the five strategies have run
AllCandidates(results) ==
    LET full_text == FullText(results)
        corrected_full_text == fix_common_digit_errors(StrUpper(full_text))
    IN  Strategy1(results) \o Strategy2(full_text) \o Strategy3(corrected_full_text)
        \o Strategy4(corrected_full_text) \o Strategy5(full_text)

\* unique_times: a dictionary in insertion order, as a sequence of (key, value);
\* a key seen again keeps its place and takes the higher confidence
KeyIndex(unique, key) ==
    IF \E i \in 1..Len(unique) : unique[i][1] = key
    THEN CHOOSE i \in 1..Len(unique) : unique[i][1] = key
    ELSE 0

RECURSIVE UniqueTimes(_, _)
UniqueTimes(unique, times) ==
    IF Len(times) = 0 THEN unique
    ELSE LET time_str == times[1][1]
             confidence == times[1][2]
             k == KeyIndex(unique, time_str)
         IN  UniqueTimes(
                 IF k = 0 THEN Append(unique, <<time_str, confidence>>)
                 ELSE IF unique[k][2] < confidence
                      THEN [unique EXCEPT ![k] = <<time_str, confidence>>]
                      ELSE unique,
                 Tail(times))

\* a sort that is not stable: an item goes before those of an equal confidence
RECURSIVE InsertBeforeEqual(_, _)
InsertBeforeEqual(sorted, item) ==
    IF Len(sorted) = 0 THEN <<item>>
    ELSE IF sorted[1][2] > item[2]
         THEN <<sorted[1]>> \o InsertBeforeEqual(Tail(sorted), item)
         ELSE <<item>> \o sorted

\* where sorted(..., key=confidence, reverse=True) puts item among the items
\* already sorted: after those of a higher or equal confidence (stable)
RECURSIVE InsertByConfidence(_, _)
InsertByConfidence(sorted, item) ==
    IF Len(sorted) = 0 THEN <<item>>
    ELSE IF sorted[1][2] >= item[2]
         THEN <<sorted[1]>> \o InsertByConfidence(Tail(sorted), item)
         ELSE <<item>> \o sorted

RECURSIVE SortedTimes(_, _)
SortedTimes(sorted, items) ==
    IF Len(items) = 0 THEN sorted
    ELSE SortedTimes(InsertByConfidence(sorted, items[1]), Tail(items))

\* A confidence that is no number stands in the model as a negative value:
\* a string (such as "high"), or None.
StrConfidence == 0 - 1
NoneConfidence == 0 - 2
IsNumber(confidence) == confidence >= 0

\* the exception of a comparison Python does not support
TypeError == <<"TypeError">>

\* a < b raises TypeError: None against anything, a string against a number
CompareRaises(a, b) ==
    \/ a = NoneConfidence
    \/ b = NoneConfidence
    \/ IsNumber(a) # IsNumber(b)

\* the loop that fills unique_times raises at unique_times[time_str] < confidence
RECURSIVE DedupeRaises(_, _)
DedupeRaises(unique, times) ==
    IF Len(times) = 0 THEN FALSE
    ELSE LET k == KeyIndex(unique, times[1][1])
         IN  IF k # 0 /\ CompareRaises(unique[k][2], times[1][2]) THEN TRUE
             ELSE DedupeRaises(UniqueTimes(unique, <<times[1]>>), Tail(times))

\* sorted raises: with two items or more every item is compared with another,
\* and items of two kinds meet in some comparison
SortRaises(items) ==
    \E i, j \in 1..Len(items) : i # j /\ CompareRaises(items[i][2], items[j][2])

\* lines 289-298 raise TypeError
SelectionRaises(times) ==
    /\ Len(times) > 0
    /\ \/ DedupeRaises(<< >>, times)
       \/ SortRaises(UniqueTimes(<< >>, times))

\* the most confident time found, or None
MostConfident(times) ==
    IF Len(times) > 0
    THEN SortedTimes(<< >>, UniqueTimes(<< >>, times))[1][1]
    ELSE None

extract_time_advanced(results) == MostConfident(AllCandidates(results))

-----------------------------------------------------------------------------
(* find_all_details *)

\* full_text.upper().replace('I', '1').replace('L', '1')
TextForSearch(results) ==
    StrReplace(StrReplace(StrUpper(FullText(results)), "I", "1"), "L", "1")

\* r'\b' + re.escape(company_symbol) + r'\b'
CompanyPattern(company_symbol) == Cat(<<WordB, Lit(company_symbol), WordB>>)

\* the first company of the registry found in the text, or None
RECURSIVE FindCompany(_, _)
FindCompany(companies, text_for_search) ==
    IF Len(companies) = 0 THEN None
    ELSE IF ReSearch(CompanyPattern(companies[1]), text_for_search).ok THEN companies[1]
    ELSE FindCompany(Tail(companies), text_for_search)

\* text_for_search.replace('O', '0').replace('o', '0').replace('Q', '0')
CorrectedText(text_for_search) ==
    StrReplace(StrReplace(StrReplace(text_for_search, "O", "0"), "o", "0"), "Q", "0")

\* (\d{3,6})[^A-Z]*(CE|PE)
strike_pattern ==
    Cat(<<Grp(1, Rep(Cls(Digits), 3, 6)), Star(NCls(UpperLetters)),
          Grp(2, Alt(<<Lit(<<"C", "E">>), Lit(<<"P", "E">>)>>))>>)

StrikeMatch(results) == ReSearch(strike_pattern, CorrectedText(TextForSearch(results)))

\* the normalization applied from four digits on (len >= 4)
StrikeIntFromFour(raw) ==
    IF Len(raw) >= 4 /\ EndsWith(raw, <<"0", "0">>)
    THEN IntOf(raw) \div 100
    ELSE IntOf(raw)

\* the normalization dividing by 10
StrikeIntByTen(raw) ==
    IF Len(raw) > 4 /\ EndsWith(raw, <<"0", "0">>)
    THEN IntOf(raw) \div 10
    ELSE IntOf(raw)

\* the lot-size normalization of the captured digit run
StrikeInt(raw) ==
    IF Len(raw) > 4 /\ EndsWith(raw, <<"0", "0">>)
    THEN IntOf(raw) \div 100
    ELSE IntOf(raw)

-----------------------------------------------------------------------------
(* The calls *)

\* When extract_time_advanced raises, find_all_details returns nothing: its
\* results stay as they were and the exception goes to the caller.
find_all_details ==
    /\ pc = "ready"
    /\ found_times' = AllCandidates(ocr_results)
    /\ IF SelectionRaises(found_times')
       THEN /\ found_time' = TypeError
            /\ pc' = "raised"
            /\ UNCHANGED <<found_company, strike_raw, found_strike_num, found_option_type>>
       ELSE /\ LET strike_match == StrikeMatch(ocr_results)
               IN  /\ found_company' = FindCompany(known_companies, TextForSearch(ocr_results))
                   /\ strike_raw' = IF strike_match.ok THEN strike_match.c[1] ELSE None
                   /\ found_strike_num' =
                          IF strike_match.ok THEN StrOf(StrikeInt(strike_match.c[1])) ELSE None
                   /\ found_option_type' = IF strike_match.ok THEN strike_match.c[2] ELSE None
            /\ found_time' = MostConfident(found_times')
            /\ pc' = "details"
    /\ UNCHANGED <<ocr_results, known_companies, normVars, batchVars>>

\* extract_time_advanced called on its own
call_extract_time_advanced ==
    /\ pc = "ready"
    /\ found_times' = AllCandidates(ocr_results)
    /\ IF SelectionRaises(found_times')
       THEN found_time' = TypeError /\ pc' = "raised"
       ELSE found_time' = MostConfident(found_times') /\ pc' = "time"
    /\ UNCHANGED <<ocr_results, known_companies, found_company, found_strike_num,
                   found_option_type, strike_raw, normVars, batchVars>>

Next == find_all_details \/ call_extract_time_advanced

\* one more pass of the normalizer over the text it returned last
\* (passes beyond the second add nothing to compare)
normalize ==
    /\ Len(normalized) < 3
    /\ normalized' = Append(normalized, fix_common_digit_errors(normalized[Len(normalized)]))
    /\ UNCHANGED <<engineVars, batchVars>>

NextNormalizer == normalize

-----------------------------------------------------------------------------
(* move_file_threaded and the batch loop of main *)

\* bool(x) of a value that is None or a string
Truthy(x) == x # None /\ Len(x) > 0

\* if company and strike_num and option_type and time_str and is_valid_time(time_str)
MoveConditionNoCompany(file_info) ==
    /\ Truthy(file_info.strike_num)
    /\ Truthy(file_info.option_type)
    /\ Truthy(file_info.time_str)
    /\ is_valid_time(file_info.time_str)

MoveCondition(file_info) ==
    /\ Truthy(file_info.company)
    /\ Truthy(file_info.strike_num)
    /\ Truthy(file_info.option_type)
    /\ Truthy(file_info.time_str)
    /\ is_valid_time(file_info.time_str)

\* f"{strike_num} {option_type} {company}"
FolderName(file_info) ==
    file_info.strike_num \o <<" ">> \o file_info.option_type \o <<" ">> \o file_info.company

\* the date typed for the batch
fileDate == <<"0", "7", "-", "0", "8", "-", "2", "0", "2", "5">>

\* f"{fileDate} {company} {strike_num} {option_type} {time_str}.png"
NewFilename(file_info) ==
    fileDate \o <<" ">> \o file_info.company \o <<" ">> \o file_info.strike_num \o <<" ">>
    \o file_info.option_type \o <<" ">> \o file_info.time_str \o <<".", "p", "n", "g">>

\* os.path.join(folder_name, new_filename)
FullPath(file_info) == <<FolderName(file_info), NewFilename(file_info)>>

\* the task of screenshot i ends: what it returns, or the exception line 489 catches
TaskEnds(i, outcome) ==
    /\ task_pc' = [task_pc EXCEPT ![i] = "done"]
    /\ task_outcome' = [task_outcome EXCEPT ![i] = outcome]

\* main, lines 532-544: the next result of the batch; a move task is
\* submitted to the thread pool for a result with success, and only for it
main_submit ==
    /\ main_pc = "submit"
    /\ main_index <= Len(batch_results)
    /\ task_pc' = IF batch_results[main_index].success
                  THEN [task_pc EXCEPT ![main_index] = "start"]
                  ELSE task_pc
    /\ IF main_index < Len(batch_results)
       THEN main_index' = main_index + 1 /\ main_pc' = "submit"
       ELSE main_index' = 1 /\ main_pc' = "collect"
    /\ UNCHANGED <<batch_results, task_outcome, location, folders, dest_files, created>>
    /\ UNCHANGED <<engineVars, normVars>>

\* main, lines 546-553: the results are collected and the pool is left, which
\* waits for every task submitted
main_collect ==
    /\ main_pc = "collect"
    /\ \A i \in 1..Len(task_pc) : task_pc[i] \in {"none", "done"}
    /\ main_pc' = "done"
    /\ UNCHANGED <<batch_results, main_index, task_pc, task_outcome, location, folders,
                   dest_files, created>>
    /\ UNCHANGED <<engineVars, normVars>>

\* lines 450-456: the fields are complete and the time valid; the lock of
\* line 455 is a new lock of this call, which no other task ever holds, so it
\* is taken at once; then os.path.exists(folder_name)
task_folder_exists ==
    \E i \in 1..Len(batch_results) :
    /\ task_pc[i] = "start"
    /\ MoveCondition(batch_results[i])
    /\ task_pc' = [task_pc EXCEPT ![i] =
                      IF FolderName(batch_results[i]) \in folders THEN "path_exists"
                      ELSE "makedirs"]
    /\ UNCHANGED <<batch_results, main_pc, main_index, task_outcome, location, folders,
                   dest_files, created>>
    /\ UNCHANGED <<engineVars, normVars>>

\* line 457: os.makedirs(folder_name) raises FileExistsError when the folder
\* exists by now; line 489 catches it and the task ends with its file in place
task_makedirs ==
    \E i \in 1..Len(batch_results) :
    /\ task_pc[i] = "makedirs"
    /\ IF FolderName(batch_results[i]) \in folders
       THEN /\ TaskEnds(i, "makedirs FileExistsError")
            /\ UNCHANGED <<folders, created>>
       ELSE /\ folders' = folders \cup {FolderName(batch_results[i])}
            /\ created' = Append(created, FolderName(batch_results[i]))
            /\ task_pc' = [task_pc EXCEPT ![i] = "path_exists"]
            /\ UNCHANGED task_outcome
    /\ UNCHANGED <<batch_results, main_pc, main_index, location, dest_files>>
    /\ UNCHANGED <<engineVars, normVars>>

\* line 464: os.path.exists(full_path)
task_path_exists ==
    \E i \in 1..Len(batch_results) :
    /\ task_pc[i] = "path_exists"
    /\ task_pc' = [task_pc EXCEPT ![i] =
                      IF FullPath(batch_results[i]) \in dest_files THEN "remove_old"
                      ELSE "rename"]
    /\ UNCHANGED <<batch_results, main_pc, main_index, task_outcome, location, folders,
                   dest_files, created>>
    /\ UNCHANGED <<engineVars, normVars>>

\* line 470: os.remove(full_path) raises FileNotFoundError when the old file
\* is gone by now
task_remove_old ==
    \E i \in 1..Len(batch_results) :
    /\ task_pc[i] = "remove_old"
    /\ IF FullPath(batch_results[i]) \in dest_files
       THEN /\ dest_files' = dest_files \ {FullPath(batch_results[i])}
            /\ task_pc' = [task_pc EXCEPT ![i] = "rename"]
            /\ UNCHANGED task_outcome
       ELSE /\ TaskEnds(i, "remove FileNotFoundError")
            /\ UNCHANGED dest_files
    /\ UNCHANGED <<batch_results, main_pc, main_index, location, folders, created>>
    /\ UNCHANGED <<engineVars, normVars>>

\* lines 465 and 471: os.rename(filename, full_path); onto a file that exists
\* by now it replaces that file (POSIX) or raises FileExistsError (Windows)
task_rename ==
    \E i \in 1..Len(batch_results) :
    /\ task_pc[i] = "rename"
    /\ \/ /\ location' = [location EXCEPT ![i] = "moved"]
          /\ dest_files' = dest_files \cup {FullPath(batch_results[i])}
          /\ TaskEnds(i, "moved")
       \/ /\ FullPath(batch_results[i]) \in dest_files
          /\ TaskEnds(i, "rename FileExistsError")
          /\ UNCHANGED <<location, dest_files>>
    /\ UNCHANGED <<batch_results, main_pc, main_index, folders, created>>
    /\ UNCHANGED <<engineVars, normVars>>

\* lines 473-485: a field is missing or the time invalid: os.remove(filename)
task_remove ==
    \E i \in 1..Len(batch_results) :
    /\ task_pc[i] = "start"
    /\ ~MoveCondition(batch_results[i])
    /\ location' = [location EXCEPT ![i] = "deleted"]
    /\ TaskEnds(i, "deleted")
    /\ UNCHANGED <<batch_results, main_pc, main_index, folders, dest_files, created>>
    /\ UNCHANGED <<engineVars, normVars>>

move_file_threaded ==
    \/ task_folder_exists
    \/ task_makedirs
    \/ task_path_exists
    \/ task_remove_old
    \/ task_rename
    \/ task_remove

NextBatch ==
    \/ main_submit
    \/ main_collect
    \/ move_file_threaded

-----------------------------------------------------------------------------
(* The inputs *)

\* no batch is being processed
BatchIdle ==
    /\ batch_results = << >>
    /\ main_pc = "done"
    /\ main_index = 1
    /\ task_pc = << >>
    /\ task_outcome = << >>
    /\ location = << >>
    /\ folders = {}
    /\ dest_files = {}
    /\ created = << >>

\* longest list of detections, longest registry, longest run of strike digits
MaxDetections == 2
MaxRegistry == 2
MaxRunLen == 6

\* the sequences of 1 to n elements of S
SeqsUpTo(S, n) == UNION {[1..k -> S] : k \in 1..n}

\* a detection: (bounding box, text, confidence), or (bounding box, text)
Detection(text, conf) == <<"bbox", text, conf>>
BareDetection(text) == <<"bbox", text>>
DetectionsOf(texts, confs) ==
    {Detection(t, c) : t \in texts, c \in confs} \cup {BareDetection(t) : t \in texts}

Separators == {":", ";", "."}
OneDigit == {<<d>> : d \in Digits}

\* the literal times "{hour}:{minute:02d}" of the trading window
LiteralTimes == {StrOf(h) \o <<":">> \o Fmt02d(m) : h \in MinHour..MaxHour, m \in 0..MaxMinute}

\* readings of a time, good and misread: one or two hour digits, a separator,
\* two minute digits
ReadHours == OneDigit \cup {<<a, b>> : a \in {"0", "1", "2", "6", "7", "8", "9"}, b \in Digits}
ReadMinutes == {<<"0", "0">>, <<"1", "5">>, <<"5", "0">>, <<"5", "9">>, <<"6", "0">>,
                <<"6", "5">>, <<"7", "5">>, <<"8", "5">>, <<"9", "9">>}
ReadTimes == {h \o <<s>> \o m : h \in ReadHours, s \in Separators, m \in ReadMinutes}

\* texts of the detections of a list
ListTexts == {<<"9", ":", "1", "5">>, <<"1", "0", ":", "3", "0">>, <<"7", "1", ";", "5", "0">>,
              <<"1", "0", ":", "7", "5">>, <<"9">>, <<"1", "5">>}
ListConfidences == {90, 95}

InitResults ==
    /\ pc = "ready"
    /\ found_company = None
    /\ found_strike_num = None
    /\ found_option_type = None
    /\ found_time = None
    /\ strike_raw = None
    /\ found_times = << >>
    /\ normalized = << << >> >>
    /\ BatchIdle

InitTime ==
    /\ \/ \E d \in DetectionsOf(LiteralTimes \cup ReadTimes, {95}) : ocr_results = <<d>>
       \/ ocr_results \in SeqsUpTo(DetectionsOf(ListTexts, ListConfidences), MaxDetections)
    /\ known_companies = << >>
    /\ InitResults

\* company symbols and the words of the texts
Symbols == {<<"A", "B", "B">>, <<"I", "T", "C">>, <<"A", "1">>}
Words == {<<"A", "B", "B">>, <<"I", "T", "C">>, <<"C", "A", "B", "B", "A", "G", "E">>,
          <<"a", "b", "b">>, <<"A", "I">>, <<"A", "B", "B", "-", "X">>}
Registries == {r \in SeqsUpTo(Symbols, MaxRegistry) :
                 \A i, j \in 1..Len(r) : r[i] = r[j] => i = j}

InitCompany ==
    /\ ocr_results \in SeqsUpTo({BareDetection(w) : w \in Words}, MaxDetections)
    /\ known_companies \in Registries \cup {<< >>}
    /\ InitResults

\* strike texts: a run of digits (and misread zeros), a gap, a tag
StrikeRuns == SeqsUpTo({"0", "6"}, MaxRunLen)
             \cup {<<"6", "2", "O", "O">>, <<"6", "2", "Q", "o", "0", "0">>,
                   <<"2", "4", "5", "0", "0">>, <<"1", "2", "3", "4", "5">>,
                   <<"1", "2", "3", "X", "4", "5", "6">>, <<"6", "2", "0", "0", "-">>,
                   <<"6", "2", "0", "0", "0", "0">>}
StrikeGaps == {<< >>, <<" ">>}
StrikeTags == {<<"C", "E">>, <<"P", "E">>}
StrikeTexts == {r \o g \o t : r \in StrikeRuns, g \in StrikeGaps, t \in StrikeTags}

InitStrike ==
    /\ \E t \in StrikeTexts : ocr_results = <<BareDetection(t)>>
    /\ known_companies = << >>
    /\ InitResults

\* Scenario A of the specification
ScenarioA ==
    << BareDetection(<<"S", "Y", "M", "B", "O", "L">>),
       BareDetection(<<"A", "B", "B">>),
       BareDetection(<<"S", "T", "R", "I", "K", "E", "1">>),
       BareDetection(<<"6", "2", "0", "0", "C", "E">>),
       BareDetection(<<"0", "9", ":", "1", "5">>) >>
ScenarioARegistry == << <<"A", "B", "B">>, <<"T", "C", "S">> >>

InitScenario ==
    /\ ocr_results = ScenarioA
    /\ known_companies = ScenarioARegistry
    /\ InitResults

\* the engine before any call, with no input
EngineIdle ==
    /\ pc = "ready"
    /\ ocr_results = << >>
    /\ known_companies = << >>
    /\ found_company = None
    /\ found_strike_num = None
    /\ found_option_type = None
    /\ found_time = None
    /\ strike_raw = None
    /\ found_times = << >>

\* texts for the normalizer: every key and every value of the corrections
\* and some characters it does not map, alone; and short texts of a few of them
MaxTextLen == 3
MappingChars == {corrections[i][1] : i \in 1..Len(corrections)}
                \cup {corrections[i][2] : i \in 1..Len(corrections)}
OtherChars == {"x", "K", " ", ":", ";", "_"}
MixedChars == {"O", "g", "G", "b", "B", "8", "x", ":"}
NormalizerTexts == {<<ch>> : ch \in MappingChars \cup OtherChars}
                   \cup SeqsUpTo(MixedChars, MaxTextLen)

InitNormalizer ==
    /\ \E t \in NormalizerTexts : normalized = <<t>>
    /\ EngineIdle
    /\ BatchIdle

\* the results of a batch: what process_single_screenshot found for a
\* screenshot (success), or that it failed, raised or timed out
MaxFiles == 2
ResultCompanies == {None, <<"A", "B", "B">>}
ResultStrikes == {<<None, None>>, <<<<"6", "2", "0", "0">>, <<"C", "E">>>>}
ResultTimes == {None, <<"9", ";", "1", "5">>, <<"1", "0", ";", "3", "0">>}
ProcessResults ==
    {[success |-> TRUE, company |-> c, strike_num |-> k[1], option_type |-> k[2],
      time_str |-> t] : c \in ResultCompanies, k \in ResultStrikes, t \in ResultTimes}
    \cup {[success |-> FALSE, company |-> None, strike_num |-> None, option_type |-> None,
           time_str |-> None]}

\* what earlier batches left: nothing, the folder, or the folder and a file
OldFile == [success |-> TRUE, company |-> <<"A", "B", "B">>,
            strike_num |-> <<"6", "2", "0", "0">>, option_type |-> <<"C", "E">>,
            time_str |-> <<"9", ";", "1", "5">>]

InitBatch ==
    /\ batch_results \in SeqsUpTo(ProcessResults, MaxFiles)
    /\ main_pc = "submit"
    /\ main_index = 1
    /\ task_pc = [i \in 1..Len(batch_results) |-> "none"]
    /\ task_outcome = [i \in 1..Len(batch_results) |-> "none"]
    /\ location = [i \in 1..Len(batch_results) |-> "original"]
    /\ \/ folders = {} /\ dest_files = {}
       \/ folders = {FolderName(OldFile)} /\ dest_files = {}
       \/ folders = {FolderName(OldFile)} /\ dest_files = {FullPath(OldFile)}
    /\ created = << >>
    /\ normalized = << << >> >>
    /\ EngineIdle

\* lists with a detection whose confidence is no number
MalformedTexts == {<<"9", ":", "1", "5">>, <<"1", "0", ":", "3", "0">>, <<"A", "B", "B">>}
MalformedDetections ==
    {Detection(t, c) : t \in MalformedTexts, c \in {90, StrConfidence, NoneConfidence}}
WellFormed(detection) == Len(detection) < 3 \/ IsNumber(detection[3])

InitMalformed ==
    /\ ocr_results \in {l \in SeqsUpTo(MalformedDetections, MaxDetections) :
                           \E i \in 1..Len(l) : ~WellFormed(l[i])}
    /\ known_companies = << <<"A", "B", "B">> >>
    /\ InitResults

Init == InitTime \/ InitCompany \/ InitStrike \/ InitScenario

Spec == Init /\ [][Next]_vars
SpecTime == InitTime /\ [][Next]_vars
SpecCompany == InitCompany /\ [][Next]_vars
SpecStrike == InitStrike /\ [][Next]_vars
SpecMalformed == InitMalformed /\ [][Next]_vars
SpecBatch == InitBatch /\ [][NextBatch]_vars
SpecNormalizer == InitNormalizer /\ [][NextNormalizer]_vars

-----------------------------------------------------------------------------
(* The claims about the time *)

\* a call has returned
Returned == pc \in {"details", "time"}

\* the text of the only detection, when there is exactly one
OnlyText == IF Len(ocr_results) = 1 THEN ocr_results[1][2] ELSE None

\* the (hour, minute) pair a reported time string "h;mm" stands for
SemicolonAt(t) == CHOOSE k \in 1..Len(t) : t[k] = ";"
HourOfTime(t) == IntOf(SubSeq(t, 1, SemicolonAt(t) - 1))
MinuteOfTime(t) == IntOf(SubSeq(t, SemicolonAt(t) + 1, Len(t)))
IsPair(t, h, m) == t # None /\ HourOfTime(t) = h /\ MinuteOfTime(t) = m

\* C1: the time returned by extract_time_advanced, and so by find_all_details,
\* is absent or a pair with 9 <= hour <= 15 and 0 <= minute <= 59, which the
\* validity check of the caller accepts.
C1_TimeInWindow ==
    Returned =>
        \/ found_time = None
        \/ /\ HourOfTime(found_time) \in 9..15
           /\ MinuteOfTime(found_time) \in 0..59
           /\ is_valid_time(found_time)

\* the reading "10:75" is matched with a minute outside the window, and the
\* time returned is the repaired 10:15
C1_Witness ==
    /\ pc = "details"
    /\ OnlyText = <<"1", "0", ":", "7", "5">>
    /\ found_time = <<"1", "0", ";", "1", "5">>

\* C7: when the only detection text is the literal "{hour}:{minute:02d}" of a
\* time of the window, exactly that (hour, minute) pair is returned.
C7_LiteralTimeWins ==
    \A h \in 9..15, m \in 0..59 :
        (Returned /\ OnlyText = StrOf(h) \o <<":">> \o Fmt02d(m))
            => IsPair(found_time, h, m)

\* the literal "9:05", read at a low confidence, has returned (9, 5)
C7_Witness ==
    /\ pc = "time"
    /\ ocr_results = <<BareDetection(<<"9", ":", "0", "5">>)>>
    /\ IsPair(found_time, 9, 5)

\* C9 as stated: with "71;50" the only text, the final time is (1, 50).
C9_FinalTimeIs_1_50 ==
    (Returned /\ OnlyText = <<"7", "1", ";", "5", "0">>) => IsPair(found_time, 1, 50)

\* C9 as amended: with "71;50" the only text, the misread-hour repair puts
\* (11, 50) into the pool at confidence 0.7, and (11, 50) is the final time.
C9_RepairGives_11_50 ==
    (Returned /\ OnlyText = <<"7", "1", ";", "5", "0">>) =>
        /\ \E i \in 1..Len(found_times) :
              found_times[i] = <<<<"1", "1", ";", "5", "0">>, 70>>
        /\ IsPair(found_time, 11, 50)
        /\ \A i \in 1..Len(found_times) : found_times[i][1] = found_time

C9_Witness ==
    /\ pc = "details"
    /\ OnlyText = <<"7", "1", ";", "5", "0">>
    /\ found_time # None

\* the pool: its pairs, the highest confidence of a pair, its first place
PoolKeys == {found_times[i][1] : i \in 1..Len(found_times)}
PlacesOf(key) == {i \in 1..Len(found_times) : found_times[i][1] = key}
BestConfidence(key) ==
    CHOOSE c \in {found_times[i][2] : i \in PlacesOf(key)} :
        \A i \in PlacesOf(key) : found_times[i][2] <= c
FirstPlace(key) == CHOOSE i \in PlacesOf(key) : \A j \in PlacesOf(key) : i <= j

\* C10: the time returned is the pair of the pool whose highest confidence is
\* the highest of the pool; of several such pairs, the one that entered the
\* pool first; and no time when the pool is empty.
C10_MostConfidentFirstInserted ==
    Returned =>
        IF Len(found_times) = 0 THEN found_time = None
        ELSE /\ found_time \in PoolKeys
             /\ \A k \in PoolKeys :
                   \/ BestConfidence(k) < BestConfidence(found_time)
                   \/ /\ BestConfidence(k) = BestConfidence(found_time)
                      /\ FirstPlace(found_time) <= FirstPlace(k)

\* two different pairs tie at the highest confidence of the pool
C10_Witness ==
    /\ pc = "time"
    /\ found_time # None
    /\ \E k \in PoolKeys :
          /\ k # found_time
          /\ BestConfidence(k) = BestConfidence(found_time)

-----------------------------------------------------------------------------
(* The claims about the strike *)

StrikeReported == pc = "details" /\ found_strike_num # None

\* C5: for the captured digit run d, the strike reported is int(d) // 100 when
\* len(d) > 4 and d ends in "00", and int(d) unchanged otherwise.
C5_LotSizeNormalization ==
    StrikeReported =>
        IF Len(strike_raw) > 4 /\ strike_raw[Len(strike_raw) - 1] = "0"
              /\ strike_raw[Len(strike_raw)] = "0"
        THEN 100 * IntOf(found_strike_num) = IntOf(strike_raw)
        ELSE IntOf(found_strike_num) = IntOf(strike_raw)

\* Scenario D: "620000CE" gives strike 6200, option type CE
C5_Witness ==
    /\ StrikeReported
    /\ strike_raw = <<"6", "2", "0", "0", "0", "0">>
    /\ found_strike_num = <<"6", "2", "0", "0">>
    /\ found_option_type = <<"C", "E">>

-----------------------------------------------------------------------------
(* The claims about the company *)

\* the joined text, in upper case
UpperText == StrUpper(FullText(ocr_results))

\* symbol stands in text at place p
OccursAt(symbol, text, p) ==
    /\ p + Len(symbol) - 1 <= Len(text)
    /\ SubSeq(text, p, p + Len(symbol) - 1) = symbol

\* ... as a whole word: between non-word characters or the ends of the text
WholeWordAt(symbol, text, p) ==
    /\ OccursAt(symbol, text, p)
    /\ p = 1 \/ text[p - 1] \notin WordChars
    /\ p + Len(symbol) - 1 = Len(text) \/ text[p + Len(symbol)] \notin WordChars

IsWholeWord(symbol, text) == \E p \in 1..Len(text) : WholeWordAt(symbol, text, p)
IsSubstring(symbol, text) == \E p \in 1..Len(text) : OccursAt(symbol, text, p)

\* the places of the registry whose entry is a whole word of the text
PresentEntries == {i \in 1..Len(known_companies) : IsWholeWord(known_companies[i], UpperText)}

\* C2: when the joined text holds a registry entry as a whole word, the
\* matcher returns an entry that the text holds as a whole word.
C2_WholeWordIsReturned ==
    (pc = "details" /\ PresentEntries # {}) =>
        \E i \in PresentEntries : found_company = known_companies[i]

\* C3: when a registry entry stands in the joined text only inside a longer
\* token and no registry entry is a whole word of it, the matcher returns null.
C3_SubstringOnlyIsNull ==
    (/\ pc = "details"
     /\ PresentEntries = {}
     /\ \E i \in 1..Len(known_companies) : IsSubstring(known_companies[i], UpperText))
        => found_company = None

\* C4: when two or more registry entries are whole words of the text, the
\* matcher returns the one declared first in the registry.
C4_FirstDeclaredWins ==
    (pc = "details" /\ Cardinality(PresentEntries) >= 2) =>
        found_company =
            known_companies[CHOOSE i \in PresentEntries : \A j \in PresentEntries : i <= j]

\* C8: Scenario A gives company "ABB", strike 6200, option type "CE" and
\* time (9, 15).
C8_ScenarioA ==
    (pc = "details" /\ ocr_results = ScenarioA /\ known_companies = ScenarioARegistry) =>
        /\ found_company = <<"A", "B", "B">>
        /\ found_strike_num = <<"6", "2", "0", "0">>
        /\ found_option_type = <<"C", "E">>
        /\ IsPair(found_time, 9, 15)

-----------------------------------------------------------------------------
(* The claims about the normalizer *)

\* the characters the corrections change into another character
ConfusableChars == {corrections[i][1] : i \in {j \in 1..Len(corrections) :
                                                 corrections[j][1] # corrections[j][2]}}

\* C11: the normalizer is idempotent: a second pass returns what the first
\* returned; a text with no confusable character comes back unchanged; and a
\* pass keeps the length of the text and every character that is not confusable.
C11_NormalizerIdempotent ==
    /\ Len(normalized) >= 3 => normalized[3] = normalized[2]
    /\ Len(normalized) >= 2 =>
          /\ Len(normalized[2]) = Len(normalized[1])
          /\ \A i \in 1..Len(normalized[1]) :
                normalized[1][i] \notin ConfusableChars
                    => normalized[2][i] = normalized[1][i]
          /\ (\A i \in 1..Len(normalized[1]) : normalized[1][i] \notin ConfusableChars)
                => normalized[2] = normalized[1]
          /\ \A i \in 1..Len(normalized[2]) : normalized[2][i] \notin ConfusableChars

\* the text "gB:" has been corrected to "98:" and corrected again
C11_Witness ==
    /\ Len(normalized) = 3
    /\ normalized[1] = <<"g", "B", ":">>
    /\ normalized[2] = <<"9", "8", ":">>
    /\ normalized[3] = <<"9", "8", ":">>

-----------------------------------------------------------------------------
(* The claim about malformed detections *)

\* C12: a detection whose confidence is no number is ignored: with such a
\* detection beside well-formed ones, the call raises nothing and returns the
\* time the well-formed detections yield.
C12_MalformedIsIgnored ==
    (/\ pc # "ready"
     /\ \E i \in 1..Len(ocr_results) : ~WellFormed(ocr_results[i])
     /\ \E i \in 1..Len(ocr_results) : WellFormed(ocr_results[i]))
        => /\ pc # "raised"
           /\ found_time = extract_time_advanced(SelectSeq(ocr_results, WellFormed))

-----------------------------------------------------------------------------
(* The claim about the minute overflow repair *)

\* the leading minute digit, reinterpreted: 6 -> 0, 7 -> 1, 8 -> 3, 9 -> 3
RepairedLead(d) == IF d = 6 THEN 0 ELSE IF d = 7 THEN 1 ELSE 3

\* C14: for every hour of the window, written with one digit or with two, a
\* reading with a minute of 60 or more has its leading minute digit
\* reinterpreted, and the repaired time, when it lies in the window, is in the
\* pool at confidence 0.7.
C14_MinuteOverflowRepaired ==
    \A h \in 9..15, d \in 6..9, u \in 0..9, sep \in {":", ";", "."} :
        (Returned /\ OnlyText = StrOf(h) \o <<sep>> \o StrOf(10 * d + u))
            => \E i \in 1..Len(found_times) :
                  found_times[i] = <<StrOf(h) \o <<";">> \o Fmt02d(10 * RepairedLead(d) + u), 70>>

-----------------------------------------------------------------------------
(* The claims about the batch loop and move_file_threaded *)

\* C13: folder creation is thread-safe: no folder is created twice, and no
\* move task fails, its file left in place, because another task created the
\* folder between its os.path.exists check and its os.makedirs call.
C13_FolderCreationThreadSafe ==
    /\ \A i, j \in 1..Len(created) : created[i] = created[j] => i = j
    /\ \A i \in 1..Len(task_outcome) : task_outcome[i] # "makedirs FileExistsError"

\* a field of a result is present
Present(x) == x # None /\ x # << >>

\* company, strike, option type and time are all present and the time is valid
Complete(result) ==
    /\ Present(result.company)
    /\ Present(result.strike_num)
    /\ Present(result.option_type)
    /\ Present(result.time_str)
    /\ is_valid_time(result.time_str)

\* C15: a screenshot leaves its original path only through its move task: it
\* is moved only when processed with success and complete, deleted only when
\* processed with success and not complete, and a screenshot whose processing
\* failed has no move task and stays where it is.
C15_LeavesOnlyThroughMoveTask ==
    \A i \in 1..Len(batch_results) :
        /\ location[i] = "moved" =>
               /\ batch_results[i].success
               /\ Complete(batch_results[i])
               /\ task_pc[i] = "done" /\ task_outcome[i] = "moved"
        /\ location[i] = "deleted" =>
               /\ batch_results[i].success
               /\ ~Complete(batch_results[i])
               /\ task_pc[i] = "done" /\ task_outcome[i] = "deleted"
        /\ ~batch_results[i].success =>
               /\ location[i] = "original"
               /\ task_pc[i] = "none"

\* a batch is over with one screenshot moved into its folder and another,
\* short of a field, deleted
C15_Witness ==
    /\ main_pc = "done"
    /\ \E i \in 1..Len(batch_results) :
           location[i] = "moved" /\ FullPath(batch_results[i]) \in dest_files
    /\ \E i \in 1..Len(batch_results) :
           location[i] = "deleted" /\ batch_results[i].success

====
